---- MODULE Spec2Model ----
(***************************************************************************)
(* Model of the NBA props analyzer: the numeric pipeline of               *)
(* src/src/pipeline.py and the /analyze request handler of src/src/app.py. *)
(*                                                                         *)
(* Numbers.  A Python float is modelled as a record                        *)
(*     [t |-> "fin", n, d, k]   the real number n/d (d > 0, lowest terms)  *)
(*                              plus k units of 2^-58 of rounding error    *)
(*     [t |-> "nan", ...]       IEEE not-a-number                          *)
(*     [t |-> "zde", ...]       a raised ZeroDivisionError                 *)
(* The arithmetic operators compute n/d exactly.  binary64 rounding is     *)
(* carried in k, and only for ev_per_dollar, the one field the handler     *)
(* compares: k is the distance, in units of 2^-58 (the spacing of doubles  *)
(* in [2^-6, 2^-5)), between the double the pipeline produces and the      *)
(* double nearest to n/d.  Two numbers with different n/d are ordered by   *)
(* n/d; with the same n/d, by k.                                           *)
(***************************************************************************)
EXTENDS Integers, Sequences, FiniteSets, TLC

\* ------------------------------------------------------------------ bounds
MaxBatch == 4
MaxOdds == 12
PDen == 4

\* --------------------------------------------------------------- constants
TopK == 3

\* -------------------------------------------------------- float arithmetic
Abs(x) == IF x < 0 THEN -x ELSE x

RECURSIVE GCD(_, _)
GCD(a, b) == IF b = 0 THEN a ELSE GCD(b, a % b)

Rat(n, d) ==
    LET g == GCD(Abs(n), Abs(d))
        s == IF d < 0 THEN -1 ELSE 1
    IN  [t |-> "fin", n |-> (s * n) \div g, d |-> (s * d) \div g, k |-> 0]

NaN == [t |-> "nan", n |-> 0, d |-> 1, k |-> 0]
ZeroDivisionError == [t |-> "zde", n |-> 0, d |-> 1, k |-> 0]

IsFin(a) == a.t = "fin"
Raised(a) == a.t = "zde"

\* float(x) of a number that is a float already
Float(x) == x

\* lifts an exact binary operation to floats: an exception propagates,
\* a NaN operand gives NaN
Lift(a, b, r) ==
    IF Raised(a) THEN a
    ELSE IF Raised(b) THEN b
    ELSE IF ~IsFin(a) \/ ~IsFin(b) THEN NaN
    ELSE r

FNeg(a) == IF IsFin(a) THEN Rat(-a.n, a.d) ELSE a
FAdd(a, b) == Lift(a, b, Rat(a.n * b.d + b.n * a.d, a.d * b.d))
FSub(a, b) == Lift(a, b, Rat(a.n * b.d - b.n * a.d, a.d * b.d))
FMul(a, b) == Lift(a, b, Rat(a.n * b.n, a.d * b.d))
\* Python float division raises on a zero divisor, NaN dividend included
FDiv(a, b) ==
    IF Raised(a) THEN a
    ELSE IF Raised(b) THEN b
    ELSE IF IsFin(b) /\ b.n = 0 THEN ZeroDivisionError
    ELSE IF ~IsFin(a) \/ ~IsFin(b) THEN NaN
    ELSE Rat(a.n * b.d, a.d * b.n)

\* a > b and a >= b; any comparison with NaN is False
FGt(a, b) ==
    /\ IsFin(a) /\ IsFin(b)
    /\ \/ a.n * b.d > b.n * a.d
       \/ a.n * b.d = b.n * a.d /\ a.k > b.k

\* variant: the threshold itself excluded
FGe_strict(a, b) == FGt(a, b)

FGe(a, b) ==
    /\ IsFin(a) /\ IsFin(b)
    /\ \/ a.n * b.d > b.n * a.d
       \/ a.n * b.d = b.n * a.d /\ a.k >= b.k

\* ----------------------------------------------------------- pipeline.py
\* variant: the two branches exchanged
american_to_prob_swapped(o) ==
    LET odds == Float(o)
    IN  IF FGt(odds, Rat(0, 1))
        THEN FDiv(FNeg(odds), FAdd(FNeg(odds), Rat(100, 1)))
        ELSE FDiv(Rat(100, 1), FAdd(odds, Rat(100, 1)))

american_to_prob(o) ==
    LET odds == Float(o)
    IN  IF FGt(odds, Rat(0, 1))
        THEN FDiv(Rat(100, 1), FAdd(odds, Rat(100, 1)))
        ELSE FDiv(FNeg(odds), FAdd(FNeg(odds), Rat(100, 1)))

\* variant: a negative EV reported as 0
compute_ev_per_dollar_clamped(true_prob, o) ==
    LET p == true_prob
        odds == Float(o)
        win_return == IF FGt(odds, Rat(0, 1))
                      THEN FDiv(odds, Rat(100, 1))
                      ELSE FDiv(Rat(100, 1), FNeg(odds))
        lose_return == Rat(-1, 1)
        ev == FAdd(FMul(p, win_return), FMul(FSub(Rat(1, 1), p), lose_return))
    IN  IF IsFin(ev) /\ ev.n < 0 THEN Rat(0, 1) ELSE ev

compute_ev_per_dollar(true_prob, o) ==
    LET p == true_prob
        odds == Float(o)
        win_return == IF FGt(odds, Rat(0, 1))
                      THEN FDiv(odds, Rat(100, 1))
                      ELSE FDiv(Rat(100, 1), FNeg(odds))
        lose_return == Rat(-1, 1)
        ev == FAdd(FMul(p, win_return), FMul(FSub(Rat(1, 1), p), lose_return))
    IN  ev

\* variant: a 2% markup instead of the 2% discount
estimate_true_prob_markup(implied_prob) == FMul(implied_prob, Rat(102, 100))

\* the placeholder estimator, df["implied_prob"] * 0.98
estimate_true_prob(implied_prob) == FMul(implied_prob, Rat(98, 100))

\* Rounding error of the binary64 evaluation of
\*   compute_ev_per_dollar(american_to_prob(o) * 0.98, o)
\* in units of 2^-58, relative to float("-0.02"), for the odds of the model:
\*   150 -> -0.019999999999999907,  -110 -> -0.020000000000000073,
\*   100 -> -0.020000000000000018
FloatErr(o) ==
    CASE o = Rat(150, 1) -> 27
      [] o = Rat(-110, 1) -> -21
      [] o = Rat(100, 1) -> -5
      [] OTHER -> 0

\* enrich_props applied to one row of the frame: the three derived columns.
\* player stands for the row's identifying columns (player, stat_line).
enrich_row(i, o) ==
    LET implied_prob == american_to_prob(o)
        true_prob == estimate_true_prob(implied_prob)
        ev == compute_ev_per_dollar(true_prob, o)
    IN  [player |-> i,
         american_odds |-> o,
         implied_prob |-> implied_prob,
         true_prob |-> true_prob,
         ev_per_dollar |-> IF IsFin(ev) THEN [ev EXCEPT !.k = FloatErr(o)] ELSE ev]

RowRaised(r) ==
    Raised(r.implied_prob) \/ Raised(r.true_prob) \/ Raised(r.ev_per_dollar)

\* variant: a row whose computation raises is left out
enrich_props_skip_bad_rows(df) ==
    LET rows == [i \in 1..Len(df) |-> enrich_row(i, df[i])]
    IN  [raised |-> FALSE, rows |-> SelectSeq(rows, LAMBDA r : ~RowRaised(r))]

\* an exception in any row's computation leaves apply() and enrich_props
enrich_props(df) ==
    LET rows == [i \in 1..Len(df) |-> enrich_row(i, df[i])]
    IN  IF \E i \in 1..Len(df) : RowRaised(rows[i])
        THEN [raised |-> TRUE, rows |-> <<>>]
        ELSE [raised |-> FALSE, rows |-> rows]

\* ----------------------------------------------------------------- app.py
ValueError == [t |-> "verr", n |-> 0, d |-> 1, k |-> 0]

\* the min_ev query strings of the model
MinEvStrings ==
    {"0.0", "-1", "-0.0199", "-0.01999999999999995", "-0.020000000000000073",
     "nan", "abc", ""}

\* variant: an unparsable string read as 0.0
ParseFloat_lenient(s) ==
    CASE s = "0.0" -> Rat(0, 1)
      [] s = "-1" -> Rat(-1, 1)
      [] s = "-0.0199" -> Rat(-199, 10000)
      [] s = "-0.01999999999999995" -> [Rat(-1, 50) EXCEPT !.k = 15]
      [] s = "-0.020000000000000073" -> [Rat(-1, 50) EXCEPT !.k = -21]
      [] s = "nan" -> NaN
      [] OTHER -> Rat(0, 1)

\* float(min_ev_str): the parsed double, or ValueError.  The two strings next
\* to -0.02 are doubles 15 units of 2^-58 above and 21 below float("-0.02").
ParseFloat(s) ==
    CASE s = "0.0" -> Rat(0, 1)
      [] s = "-1" -> Rat(-1, 1)
      [] s = "-0.0199" -> Rat(-199, 10000)
      [] s = "-0.01999999999999995" -> [Rat(-1, 50) EXCEPT !.k = 15]
      [] s = "-0.020000000000000073" -> [Rat(-1, 50) EXCEPT !.k = -21]
      [] s = "nan" -> NaN
      [] OTHER -> ValueError

\* the explain query strings of the model, and str.lower() on them
ExplainStrings == {"false", "TRUE", "on"}

Lower(s) == IF s = "TRUE" THEN "true" ELSE s

ParseExplain(s) == Lower(s) \in {"true", "1", "yes", "y"}

NotConfiguredMsg ==
    "LLM explanation not available (VLLM_BASE_URL is not configured)."
ErrorMsg == "LLM explanation could not be generated due to an error."
Generated == "generated explanation"
Raise == "raise"

\* what can happen to one call of the backend
Outcomes(configured) ==
    IF configured
    THEN {"success", "network_failure", "timeout", "malformed_response"}
    ELSE {"not_configured"}

\* variant: no try/except around the call
get_llm_explanation_unguarded(configured, outcome) ==
    IF ~configured THEN NotConfiguredMsg
    ELSE IF outcome = "success" THEN Generated
    ELSE Raise

\* lines 43-44 and the try/except of lines 73-80
get_llm_explanation(configured, outcome) ==
    IF ~configured THEN NotConfiguredMsg
    ELSE IF outcome = "success" THEN Generated
    ELSE ErrorMsg

\* enriched[enriched["ev_per_dollar"] >= min_ev]
filter_by_ev(enriched, min_ev) ==
    SelectSeq(enriched, LAMBDA r : FGe(r.ev_per_dollar, min_ev))

\* sorted(records, key=ev_per_dollar, reverse=True): a new list of the same
\* dict references, descending, equal keys in their original order
RECURSIVE InsertDesc(_, _, _)
InsertDesc(s, x, heap) ==
    IF s = <<>> THEN <<x>>
    ELSE IF FGt(heap[x].ev_per_dollar, heap[Head(s)].ev_per_dollar)
         THEN <<x>> \o s
         ELSE <<Head(s)>> \o InsertDesc(Tail(s), x, heap)

RECURSIVE InsertAsc(_, _, _)
InsertAsc(s, x, heap) ==
    IF s = <<>> THEN <<x>>
    ELSE IF FGt(heap[Head(s)].ev_per_dollar, heap[x].ev_per_dollar)
         THEN <<x>> \o s
         ELSE <<Head(s)>> \o InsertAsc(Tail(s), x, heap)

RECURSIVE SortFrom(_, _, _, _)
SortFrom(recs, j, acc, heap) ==
    IF j > Len(recs) THEN acc
    ELSE SortFrom(recs, j + 1, InsertDesc(acc, recs[j], heap), heap)

RECURSIVE SortAscFrom(_, _, _, _)
SortAscFrom(recs, j, acc, heap) ==
    IF j > Len(recs) THEN acc
    ELSE SortAscFrom(recs, j + 1, InsertAsc(acc, recs[j], heap), heap)

\* variant: reverse=True forgotten
sorted_ascending(recs, heap) == SortAscFrom(recs, 1, <<>>, heap)

\* variant: a sort over copies of the dicts, references to objects that are
\* not the ones the result list holds
sorted_copies(recs, heap) ==
    LET s == SortFrom(recs, 1, <<>>, heap)
    IN  [j \in 1..Len(s) |-> s[j] + Len(heap)]

sorted(recs, heap) == SortFrom(recs, 1, <<>>, heap)

\* variant: every record explained
top_k_unbounded(n) == n

top_k_of(n) == IF TopK < n THEN TopK ELSE n

\* r["llm_explanation"] = text, through the reference r
Store(heap, r, text) ==
    [x \in DOMAIN heap |->
        IF x = r THEN ("llm_explanation" :> text) @@ heap[x] ELSE heap[x]]

\* jsonify(records): the dicts the list refers to, in list order
Body(recs, heap) == [j \in 1..Len(recs) |-> heap[recs[j]]]

\* ------------------------------------------------------------------ state
VARIABLES
    vllm_configured,  \* VLLM_BASE_URL is set
    csv,              \* the data source: a table of odds, or why it fails to load
    pc,               \* position of the analyze handler
    args,             \* the query strings of the request
    min_ev,           \* float(min_ev_str)
    explain,          \* the parsed explain flag
    df,               \* the loaded frame: american_odds per row
    enriched,         \* enrich_props(df)
    heap,             \* the dicts made by to_dict, by reference
    records,          \* the list `records`: references into heap
    records_sorted,   \* the list `records_sorted`: references into heap
    top_k,            \* min(3, len(records_sorted))
    calls,            \* the calls of get_llm_explanation so far
    loads,            \* the calls of load_props so far
    enrich_calls,     \* the calls of enrich_props so far
    response,         \* the response sent, status 0 while there is none
    fn,               \* pure functions: the one applied, "" before
    arg_odds,         \* pure functions: the odds argument
    arg_p,            \* pure functions: the probability argument, arg_p / PDen
    result            \* pure functions: the value returned

handler_vars ==
    <<vllm_configured, csv, pc, args, min_ev, explain, df, enriched, heap,
      records, records_sorted, top_k, calls, loads, enrich_calls, response>>
pure_vars == <<fn, arg_odds, arg_p, result>>
vars == <<handler_vars, pure_vars>>

\* what an american_odds cell of the CSV holds in the model: a number, or
\* nothing (read as NaN)
Odds == {Rat(150, 1), Rat(-110, 1), Rat(100, 1), Rat(0, 1), NaN}

RECURSIVE SeqsUpTo(_, _)
SeqsUpTo(S, n) ==
    IF n = 0 THEN {<<>>}
    ELSE LET shorter == SeqsUpTo(S, n - 1)
         IN  shorter \cup {Append(q, x) : q \in shorter, x \in S}

DataSources ==
    {[kind |-> "missing_file", rows |-> <<>>],
     [kind |-> "no_american_odds_column", rows |-> <<>>]}
    \cup {[kind |-> "ok", rows |-> q] : q \in SeqsUpTo(Odds, MaxBatch)}

NoResponse == [status |-> 0, error |-> "", body |-> <<>>]

HandlerIdle ==
    /\ pc = "idle"
    /\ args = [min_ev |-> "<none>", explain |-> "<none>"]
    /\ min_ev = Rat(0, 1)
    /\ explain = FALSE
    /\ df = <<>>
    /\ enriched = <<>>
    /\ heap = <<>>
    /\ records = <<>>
    /\ records_sorted = <<>>
    /\ top_k = 0
    /\ calls = <<>>
    /\ loads = 0
    /\ enrich_calls = 0
    /\ response = NoResponse

PureIdle ==
    /\ fn = ""
    /\ arg_odds = 0
    /\ arg_p = 0
    /\ result = Rat(0, 1)

Init ==
    /\ vllm_configured \in BOOLEAN
    /\ csv \in DataSources
    /\ HandlerIdle
    /\ PureIdle

\* lines 110-118: the query strings are read and parsed
Request(min_ev_str, explain_str) ==
    /\ pc = "idle"
    /\ args' = [min_ev |-> min_ev_str, explain |-> explain_str]
    /\ LET parsed == ParseFloat(min_ev_str)
       IN  IF parsed = ValueError
           THEN /\ response' = [status |-> 400,
                                error |-> "min_ev must be a number",
                                body |-> <<>>]
                /\ pc' = "done"
                /\ UNCHANGED <<min_ev, explain>>
           ELSE /\ min_ev' = parsed
                /\ explain' = ParseExplain(explain_str)
                /\ pc' = "parsed"
                /\ UNCHANGED response
    /\ UNCHANGED <<vllm_configured, csv, df, enriched, heap, records,
                   records_sorted, top_k, calls, loads, enrich_calls>>
    /\ UNCHANGED pure_vars

\* lines 121-126: load_props, its failure answered with a 500
LoadProps ==
    /\ pc = "parsed"
    /\ loads' = loads + 1
    /\ IF csv.kind = "ok"
       THEN /\ df' = csv.rows
            /\ pc' = "loaded"
            /\ UNCHANGED response
       ELSE /\ response' = [status |-> 500,
                            error |-> "Failed to load props CSV",
                            body |-> <<>>]
            /\ pc' = "done"
            /\ UNCHANGED df
    /\ UNCHANGED <<vllm_configured, csv, args, min_ev, explain, enriched, heap,
                   records, records_sorted, top_k, calls, enrich_calls>>
    /\ UNCHANGED pure_vars

\* line 128: enrich_props outside any try; an exception leaves the handler and
\* the framework answers 500.  On a frame without rows apply(axis=1) returns a
\* frame, and whether assigning it to the column raises depends on the pandas
\* version: both outcomes are possible.
EnrichProps ==
    /\ pc = "loaded"
    /\ enrich_calls' = enrich_calls + 1
    /\ \E empty_apply_raises \in BOOLEAN :
        /\ empty_apply_raises => df = <<>>
        /\ LET r == enrich_props(df)
           IN  IF r.raised \/ empty_apply_raises
               THEN /\ response' = [status |-> 500,
                                    error |-> "Internal Server Error",
                                    body |-> <<>>]
                    /\ pc' = "done"
                    /\ UNCHANGED enriched
               ELSE /\ enriched' = r.rows
                    /\ pc' = "enriched"
                    /\ UNCHANGED response
    /\ UNCHANGED <<vllm_configured, csv, args, min_ev, explain, df, heap,
                   records, records_sorted, top_k, calls, loads>>
    /\ UNCHANGED pure_vars

\* lines 131-132: the filter, and to_dict making one dict per surviving row
FilterByEv ==
    /\ pc = "enriched"
    /\ heap' = filter_by_ev(enriched, min_ev)
    /\ records' = [j \in 1..Len(heap') |-> j]
    /\ pc' = "filtered"
    /\ UNCHANGED <<vllm_configured, csv, args, min_ev, explain, df, enriched,
                   records_sorted, top_k, calls, loads, enrich_calls, response>>
    /\ UNCHANGED pure_vars

\* lines 135-139
SortTopK ==
    /\ pc = "filtered"
    /\ explain /\ records # <<>>
    /\ records_sorted' = sorted(records, heap)
    /\ top_k' = top_k_of(Len(records_sorted'))
    /\ pc' = "explaining"
    /\ UNCHANGED <<vllm_configured, csv, args, min_ev, explain, df, enriched,
                   heap, records, calls, loads, enrich_calls, response>>
    /\ UNCHANGED pure_vars

\* lines 141-142: one iteration of the loop over records_sorted[:top_k]
ExplainCall ==
    /\ pc = "explaining"
    /\ Len(calls) < top_k
    /\ \E outcome \in Outcomes(vllm_configured) :
        LET r == records_sorted[Len(calls) + 1]
            text == get_llm_explanation(vllm_configured, outcome)
        IN  /\ calls' = Append(calls, [ref |-> r, outcome |-> outcome, text |-> text])
            /\ IF text = Raise
               THEN /\ response' = [status |-> 500,
                                    error |-> "Internal Server Error",
                                    body |-> <<>>]
                    /\ pc' = "done"
                    /\ UNCHANGED heap
               ELSE /\ heap' = Store(heap, r, text)
                    /\ UNCHANGED <<pc, response>>
    /\ UNCHANGED <<vllm_configured, csv, args, min_ev, explain, df, enriched,
                   records, records_sorted, top_k, loads, enrich_calls>>
    /\ UNCHANGED pure_vars

\* line 147
Respond ==
    /\ \/ pc = "filtered" /\ ~(explain /\ records # <<>>)
       \/ pc = "explaining" /\ Len(calls) = top_k
    /\ response' = [status |-> 200, error |-> "", body |-> Body(records, heap)]
    /\ pc' = "done"
    /\ UNCHANGED <<vllm_configured, csv, args, min_ev, explain, df, enriched,
                   heap, records, records_sorted, top_k, calls, loads,
                   enrich_calls>>
    /\ UNCHANGED pure_vars

Next ==
    \/ \E ms \in MinEvStrings, es \in ExplainStrings : Request(ms, es)
    \/ LoadProps
    \/ EnrichProps
    \/ FilterByEv
    \/ SortTopK
    \/ ExplainCall
    \/ Respond

Spec == Init /\ [][Next]_vars

\* ---------------------------------------------- the pure functions alone
OddsArgs == (-MaxOdds..MaxOdds) \cup {150, -110, 100, -250}

ProbArg(i) == Rat(i, PDen)

PureInit ==
    /\ vllm_configured = FALSE
    /\ csv = [kind |-> "missing_file", rows |-> <<>>]
    /\ HandlerIdle
    /\ fn = ""
    /\ arg_odds \in OddsArgs
    /\ arg_p \in 0..PDen
    /\ result = Rat(0, 1)

ApplyAmericanToProb ==
    /\ fn = ""
    /\ fn' = "american_to_prob"
    /\ result' = american_to_prob(Rat(arg_odds, 1))
    /\ UNCHANGED <<arg_odds, arg_p>>
    /\ UNCHANGED handler_vars

ApplyComputeEv ==
    /\ fn = ""
    /\ fn' = "compute_ev_per_dollar"
    /\ result' = compute_ev_per_dollar(ProbArg(arg_p), Rat(arg_odds, 1))
    /\ UNCHANGED <<arg_odds, arg_p>>
    /\ UNCHANGED handler_vars

PureNext == ApplyAmericanToProb \/ ApplyComputeEv

PureSpec == PureInit /\ [][PureNext]_vars

\* ================================================================ claims
\* a >= b and a > b on the numbers of the model, NaN never comparing
AtLeast(a, b) ==
    /\ a.t = "fin" /\ b.t = "fin"
    /\ (a.n * b.d > b.n * a.d) \/ (a.n * b.d = b.n * a.d /\ a.k >= b.k)

Above(a, b) == AtLeast(a, b) /\ ~AtLeast(b, a)

Succeeded == pc = "done" /\ response.status = 200

Explained(rec) == "llm_explanation" \in DOMAIN rec

\* the rows of the enriched batch that meet the threshold
Passing == {i \in 1..Len(enriched) : AtLeast(enriched[i].ev_per_dollar, min_ev)}

\* C1: a successful analyze returns exactly the enriched records with
\* ev_per_dollar >= min_ev, each with its computed fields, in input order.
C1_FilterExactInOrder ==
    Succeeded =>
        LET body == response.body
        IN  /\ \A j \in 1..Len(body) :
                /\ body[j].player \in Passing
                /\ body[j].american_odds = enriched[body[j].player].american_odds
                /\ body[j].ev_per_dollar = enriched[body[j].player].ev_per_dollar
            /\ \A i \in Passing : \E j \in 1..Len(body) : body[j].player = i
            /\ \A j1, j2 \in 1..Len(body) :
                j1 < j2 => body[j1].player < body[j2].player

C1_Witness ==
    /\ Succeeded
    /\ explain /\ calls # <<>>
    /\ Len(response.body) >= 2
    /\ Len(response.body) < Len(enriched)
    /\ \E j \in 1..Len(response.body) :
        /\ response.body[j].ev_per_dollar = min_ev
        /\ response.body[j].player > j

\* C2: with explain, exactly min(3, n) returned records carry llm_explanation
\* and no record without it has a strictly greater EV than one with it;
\* without explain, no returned record carries it.
C2_TopThreeExplained ==
    Succeeded =>
        LET body == response.body
            n == Len(body)
            with == {j \in 1..n : Explained(body[j])}
        IN  /\ explain =>
                /\ Cardinality(with) = IF n < 3 THEN n ELSE 3
                /\ \A j \in with, u \in (1..n) \ with :
                    ~Above(body[u].ev_per_dollar, body[j].ev_per_dollar)
            /\ ~explain => with = {}

C2_Witness ==
    /\ Succeeded
    /\ explain
    /\ Len(response.body) = 4
    /\ ~Explained(response.body[1])
    /\ \A j \in 2..4 :
        /\ Explained(response.body[j])
        /\ Above(response.body[j].ev_per_dollar, response.body[1].ev_per_dollar)

\* C3: a request that reached the explanation step ends in a success with the
\* complete filtered set, whatever each call's outcome; a record whose call
\* failed carries the fallback text of its failure.
C3_ExplanationFailuresAreNotFatal ==
    (response.status # 0 /\ records_sorted # <<>>) =>
        /\ response.status = 200
        /\ Len(response.body) = Cardinality(Passing)
        /\ \A c \in 1..Len(calls) :
            calls[c].outcome # "success" =>
                /\ calls[c].ref \in 1..Len(response.body)
                /\ Explained(response.body[calls[c].ref])
                /\ response.body[calls[c].ref].llm_explanation =
                       IF vllm_configured
                       THEN "LLM explanation could not be generated due to an error."
                       ELSE "LLM explanation not available (VLLM_BASE_URL is not configured)."

C3_Witness ==
    /\ Succeeded
    /\ vllm_configured
    /\ Len(calls) = 3
    /\ calls[1].outcome = "timeout"
    /\ calls[2].outcome = "success"
    /\ calls[3].outcome = "malformed_response"

\* C4: a min_ev that is not a number ends in the 400 response, with no load,
\* no enrichment and no explanation call on the way.
C4_BadMinEvFailsFirst ==
    (pc # "idle" /\ args.min_ev \in {"abc", ""}) =>
        /\ pc = "done"
        /\ response.status = 400
        /\ response.error = "min_ev must be a number"
        /\ loads = 0
        /\ enrich_calls = 0
        /\ enriched = <<>>
        /\ calls = <<>>

C4_Witness ==
    /\ pc = "done"
    /\ args.min_ev = "abc"
    /\ args.explain = "TRUE"
    /\ csv.kind = "ok" /\ Len(csv.rows) >= 2
    /\ response.status = 400

HasZeroOdds == csv.kind = "ok" /\ \E i \in 1..Len(csv.rows) : csv.rows[i].t = "fin" /\ csv.rows[i].n = 0

\* C5: a request ends in an error response with a message and no records, or
\* in a success over the whole batch whose records all have the three derived
\* fields; a batch with a record of odds 0 never ends in a success.
C5_AllOrNothing ==
    pc = "done" =>
        /\ \/ /\ response.status \in {400, 500}
              /\ response.error # ""
              /\ response.body = <<>>
           \/ /\ response.status = 200
              /\ response.error = ""
              /\ Len(enriched) = Len(csv.rows)
              /\ \A j \in 1..Len(response.body) :
                    /\ {"implied_prob", "true_prob", "ev_per_dollar"}
                           \subseteq DOMAIN response.body[j]
                    /\ response.body[j].implied_prob.t \in {"fin", "nan"}
                    /\ response.body[j].true_prob.t \in {"fin", "nan"}
                    /\ response.body[j].ev_per_dollar.t \in {"fin", "nan"}
        /\ HasZeroOdds => response.status \in {400, 500}

C5_Witness ==
    /\ pc = "done"
    /\ HasZeroOdds
    /\ Len(csv.rows) >= 3
    /\ csv.rows[1] = Rat(150, 1)
    /\ enrich_calls = 1
    /\ response.status = 500
    /\ response.body = <<>>

\* C6: each explanation written through the ranked list is the one the
\* returned list reports for that record, and the returned list keeps its order.
C6_ViewsShareRecords ==
    Succeeded =>
        LET body == response.body
        IN  /\ \A c \in 1..Len(calls) :
                /\ calls[c].ref \in 1..Len(body)
                /\ Explained(body[calls[c].ref])
                /\ body[calls[c].ref].llm_explanation = calls[c].text
                /\ body[calls[c].ref].player = heap[records_sorted[c]].player
            /\ \A j1, j2 \in 1..Len(body) :
                j1 < j2 => body[j1].player < body[j2].player

C6_Witness ==
    /\ Succeeded
    /\ Len(calls) = 3
    /\ records_sorted[1] = 3
    /\ records_sorted[2] = 1
    /\ calls[1].text = "generated explanation"
    /\ response.body[3].llm_explanation = "generated explanation"
    /\ calls[2].text = "LLM explanation could not be generated due to an error."
    /\ response.body[1].llm_explanation = calls[2].text

C8_ComputeEv ==
    (fn = "compute_ev_per_dollar" /\ arg_odds # 0) =>
        /\ result.t = "fin"
        /\ arg_odds > 0 =>
            result.n * (100 * PDen)
                = result.d * (arg_p * arg_odds - 100 * (PDen - arg_p))
        /\ arg_odds < 0 =>
            result.n * ((-arg_odds) * PDen)
                = result.d * (100 * arg_p - (-arg_odds) * (PDen - arg_p))

C8_Witness ==
    /\ fn = "compute_ev_per_dollar"
    /\ arg_odds = -110
    /\ arg_p = 1
    /\ result.n < 0

\* C9: get_llm_explanation is called only once the filter is done, once per
\* record of the top of the ranking in ranking order, at most 3 times, never
\* twice for a record, and not at all without explain or without records.
C9_GatewayCalls ==
    /\ Len(calls) <= 3
    /\ calls # <<>> => pc \in {"explaining", "done"}
    /\ (~explain \/ records = <<>>) => calls = <<>>
    /\ \A c \in 1..Len(calls) : calls[c].ref = records_sorted[c]
    /\ \A c1, c2 \in 1..Len(calls) : c1 # c2 => calls[c1].ref # calls[c2].ref
    /\ (Succeeded /\ explain) =>
        Len(calls) = IF Len(records) < 3 THEN Len(records) ELSE 3

C9_Witness ==
    /\ Succeeded
    /\ Len(records) = 4
    /\ Len(calls) = 3
    /\ calls[1].outcome = "network_failure"
    /\ calls[2].outcome = "network_failure"

\* min_ev is a double greater than the real number -0.02: float("-0.02") is
\* below -0.02 and the next double is above it
AboveMinusTwoPercent(m) ==
    /\ m.t = "fin"
    /\ (m.n * 50 > -m.d) \/ (m.n * 50 = -m.d /\ m.k >= 1)

ExactEvIsMinusTwoPercent ==
    \A i \in 1..Len(enriched) :
        (enriched[i].american_odds.t = "fin" /\ enriched[i].american_odds.n # 0) =>
            /\ enriched[i].ev_per_dollar.t = "fin"
            /\ enriched[i].ev_per_dollar.n * 50 = -enriched[i].ev_per_dollar.d

\* C10 as stated: the EV is -0.02 in exact arithmetic, every min_ev above
\* -0.02 gives an empty result, and the default threshold explains nothing.
C10_Original ==
    /\ ExactEvIsMinusTwoPercent
    /\ (Succeeded /\ AboveMinusTwoPercent(min_ev)) => response.body = <<>>
    /\ args.min_ev = "0.0" => calls = <<>>

\* C10 amended: the EV is -0.02 in exact arithmetic, every min_ev above -0.02
\* by more than the rounding error of the doubles (here -0.0199 and 0.0) gives
\* an empty result, and the default threshold explains nothing.
C10_EmptyAboveRounding ==
    /\ ExactEvIsMinusTwoPercent
    /\ (Succeeded /\ min_ev.t = "fin" /\ min_ev.n * 10000 >= -199 * min_ev.d) =>
        response.body = <<>>
    /\ args.min_ev \in {"0.0", "-0.0199"} => calls = <<>>

C10_Witness ==
    /\ Succeeded
    /\ args.min_ev = "0.0"
    /\ explain
    /\ Len(enriched) >= 3
    /\ enriched[1].ev_per_dollar.k # enriched[2].ev_per_dollar.k
    /\ enriched[1].ev_per_dollar.n * 50 = -enriched[1].ev_per_dollar.d
    /\ response.body = <<>>

====
